---- MODULE Spec2Model ----
(***************************************************************************)
(* Model of src/SS44.py: the controller class SS44 for the Broadcast Tools *)
(* SS 4.4 stereo matrix switcher, together with the switcher at the other  *)
(* end of the serial line.                                                 *)
(*                                                                         *)
(* Text is modelled as a sequence of one-character strings, so formatting  *)
(* (f-strings), strip() and split(',') are computed character by           *)
(* character.  A Python list is a sequence whose element k+1 is the list's *)
(* item k; None, True and False are the strings "None", "True", "False".   *)
(***************************************************************************)
EXTENDS Integers, Sequences, FiniteSets, TLC

VARIABLES
    u,          \* self.u, the unit number given to __init__
    dev,        \* which switcher is on the line: "arbitrary", "faithful" or "preloaded"
    xp,         \* the switcher's crosspoints: xp[o][i] iff input i is on output o
    rx,         \* lines the switcher has sent and the port has not read yet
    pc,         \* position of the one thread of control
    op,         \* the public method that was called
    ii, o,      \* arguments of the call
    i,          \* loop variable of switchOutput
    ret,        \* where the running readState returns to
    line,       \* line1..line4 of readState, as far as read
    results,    \* local of switchOutput: the status read after connect
    newstatus,  \* local of switchOutput: the status read after a mute
    state,      \* local of printState
    tx,         \* commands written to the port during the call, in order
    nreads,     \* number of read_until calls made during the call
    timeouts,   \* how many reads of the last readState returned at the timeout
    stdout,     \* what the call has printed
    err,        \* the exception that ended the call, or "none"
    calls,      \* number of calls made on this object
    xp0,        \* the switcher's crosspoints when the call started
    rx0,        \* the lines that were unread when the call started
    sent        \* the fields of the status block the preloaded switcher sent

vars == <<u, dev, xp, rx, pc, op, ii, o, i, ret, line, results, newstatus,
          state, tx, nreads, timeouts, stdout, err, calls, xp0, rx0, sent>>

\* no line was unread when the call started
clean == rx0 = <<>>

-----------------------------------------------------------------------------
(* Sizes fixed by the program.                                             *)

\* readState reads four lines and builds rows for outputs 1..4
NumOutputs == 4
\* the slice [1:5] keeps at most four flags of a line
NumInputs == 4
\* __init__'s default unit
DefaultUnit == 0

(* Bounds of the model.                                                    *)

\* units range over 0..MaxUnit where the unit is drawn
MaxUnit == 9
\* caller-supplied indices range over 0..MaxIdx where validation is at stake
MaxIdx == 5
\* calls made on one object where calls follow one another
MaxCalls == 3
\* at most this many outputs of the switcher carry an input initially
MaxBusy == 1

Outputs == 1..NumOutputs
Inputs == 1..NumInputs

Min(a, b) == IF a < b THEN a ELSE b

-----------------------------------------------------------------------------
(* Python text operations.                                                 *)

DigitChar(d) ==
    CASE d = 0 -> "0" [] d = 1 -> "1" [] d = 2 -> "2" [] d = 3 -> "3"
      [] d = 4 -> "4" [] d = 5 -> "5" [] d = 6 -> "6" [] d = 7 -> "7"
      [] d = 8 -> "8" [] d = 9 -> "9"

RECURSIVE FmtInt(_)
\* f'{n}' for n >= 0: the decimal digits, no fixed width
FmtInt(n) ==
    IF n < 10 THEN <<DigitChar(n)>>
    ELSE FmtInt(n \div 10) \o <<DigitChar(n % 10)>>

Fmt02dNoPad(n) == FmtInt(n)

\* f'{n:02d}' for n >= 0: zero-padded to width two, wider numbers kept whole
Fmt02d(n) ==
    LET d == FmtInt(n) IN IF Len(d) < 2 THEN <<"0">> \o d ELSE d

Whitespace == {" ", "\t", "\r", "\n"}

RECURSIVE LStrip(_)
LStrip(s) ==
    IF s # <<>> /\ Head(s) \in Whitespace THEN LStrip(Tail(s)) ELSE s

RECURSIVE RStrip(_)
RStrip(s) ==
    IF s # <<>> /\ s[Len(s)] \in Whitespace
    THEN RStrip(SubSeq(s, 1, Len(s) - 1)) ELSE s

\* str.strip()
Strip(s) == RStrip(LStrip(s))

RECURSIVE Split(_)
\* str.split(','): always at least one field, ''.split(',') = ['']
Split(s) ==
    IF \E p \in 1..Len(s) : s[p] = ","
    THEN LET p == CHOOSE q \in 1..Len(s) :
                     s[q] = "," /\ \A r \in 1..(q - 1) : s[r] # ","
         IN <<SubSeq(s, 1, p - 1)>> \o Split(SubSeq(s, p + 1, Len(s)))
    ELSE <<s>>

\* list[1:5]
Slice15(f) == SubSeq(f, 2, Min(5, Len(f)))

\* a Python list l has item k
HasItem(l, k) == k \in 0..(Len(l) - 1)
\* l[k]
Item(l, k) == l[k + 1]

-----------------------------------------------------------------------------
(* Command encoding.                                                       *)

MuteAllCmdAsStatus(unit) == <<"*">> \o FmtInt(unit) \o <<"S", "L">>

MuteAllCmd(unit) == <<"*">> \o FmtInt(unit) \o <<"M", "A">>

MuteCmdDefaultUnit(unit, in, out) ==
    <<"*">> \o FmtInt(DefaultUnit) \o Fmt02d(in) \o <<"M">> \o FmtInt(out)

MuteCmdNoM(unit, in, out) == <<"*">> \o FmtInt(unit) \o Fmt02d(in) \o FmtInt(out)

MuteCmd(unit, in, out) ==
    <<"*">> \o FmtInt(unit) \o Fmt02d(in) \o <<"M">> \o FmtInt(out)

ConnectCmd(unit, in, out) == <<"*">> \o FmtInt(unit) \o Fmt02d(in) \o FmtInt(out)

StatusCmdAsMuteAll(unit) == <<"*">> \o FmtInt(unit) \o <<"M", "A">>

StatusCmd(unit) == <<"*">> \o FmtInt(unit) \o <<"S", "L">>

-----------------------------------------------------------------------------
(* Status parsing.                                                         *)

RowNoNone(l) ==
    LET out == Slice15(Split(l))
    IN  [j \in 1..Len(out) |-> IF out[j] = <<"1">> THEN "True" ELSE "False"]

RowReversed(l) ==
    LET out == Slice15(Split(l))
    IN  <<"None">> \o [j \in 1..Len(out) |->
                          IF out[Len(out) + 1 - j] = <<"1">> THEN "True" ELSE "False"]

\* [ None ] + [i == '1' for i in line.split(',')[1:5]]
Row(l) ==
    LET out == Slice15(Split(l))
    IN  <<"None">> \o [j \in 1..Len(out) |->
                          IF out[j] = <<"1">> THEN "True" ELSE "False"]

\* the dict readState returns, from the four stripped lines
Parse(ls) == [k \in Outputs |-> Row(ls[k])]

\* ser.read_until().decode('utf-8').strip(): the next unread line, or on
\* timeout the empty text
ReadLine == IF rx = <<>> THEN <<>> ELSE Strip(Head(rx))

-----------------------------------------------------------------------------
(* The switcher.  Its side of the protocol is what the comments of         *)
(* readState and switchOutput say of it: after every change of state it    *)
(* prints four status lines, "S0L1,0,1,0,0" and so on, one per output in   *)
(* order, a 1 for every input connected to that output.                    *)

AllOff == [k \in Outputs |-> [j \in Inputs |-> FALSE]]
AllOn == [k \in Outputs |-> [j \in Inputs |-> TRUE]]

RECURSIVE Join(_)
\* the fields with a comma between them
Join(fields) ==
    IF Len(fields) = 0 THEN <<>>
    ELSE IF Len(fields) = 1 THEN fields[1]
    ELSE fields[1] \o <<",">> \o Join(Tail(fields))

\* one line on the wire
Render(fields) == Join(fields) \o <<"\r", "\n">>

Label(unit, k) == <<"S">> \o FmtInt(unit) \o <<"L">> \o FmtInt(k)

Flag(b) == IF b THEN <<"1">> ELSE <<"0">>

StatusLine(unit, k, row) ==
    Render(<<Label(unit, k)>> \o [j \in Inputs |-> Flag(row[j])])

\* the four lines of one status emission
StatusBlock(unit, m) == [k \in Outputs |-> StatusLine(unit, k, m[k])]

IsDigit(ch) == ch \in {"0", "1", "2", "3", "4", "5", "6", "7", "8", "9"}
DigitVal(ch) == CHOOSE d \in 0..9 : DigitChar(d) = ch

\* what follows "*<unit>" in a command addressed to this unit, else <<"?">>
CmdBody(c) ==
    LET pre == <<"*">> \o FmtInt(u)
    IN  IF Len(c) >= Len(pre) /\ SubSeq(c, 1, Len(pre)) = pre
        THEN SubSeq(c, Len(pre) + 1, Len(c)) ELSE <<"?">>

IsMuteAll(c) == CmdBody(c) = <<"M", "A">>
IsStatusReq(c) == CmdBody(c) = <<"S", "L">>
IsConnect(c) ==
    LET b == CmdBody(c) IN Len(b) = 3 /\ \A k \in 1..3 : IsDigit(b[k])
IsMute(c) ==
    LET b == CmdBody(c)
    IN  Len(b) = 4 /\ b[3] = "M" /\ \A k \in {1, 2, 4} : IsDigit(b[k])
CmdInput(c) == LET b == CmdBody(c) IN 10 * DigitVal(b[1]) + DigitVal(b[2])
CmdOutput(c) == LET b == CmdBody(c) IN DigitVal(b[Len(b)])
InRange(c) == CmdInput(c) \in Inputs /\ CmdOutput(c) \in Outputs

\* the crosspoints after the switcher has taken command c
DevApply(m, c) ==
    IF IsMuteAll(c) THEN AllOff
    ELSE IF IsConnect(c) /\ InRange(c)
         THEN [m EXCEPT ![CmdOutput(c)][CmdInput(c)] = TRUE]
    ELSE IF IsMute(c) /\ InRange(c)
         THEN [m EXCEPT ![CmdOutput(c)][CmdInput(c)] = FALSE]
    ELSE m

\* the status lines an arbitrary switcher may answer with: any line with
\* zero to four flags in one row of an otherwise all-off block, or fewer
\* than four lines
FlagSeqs == UNION {[1..n -> {<<"0">>, <<"1">>}] : n \in 0..NumInputs}
ArbLine(k, fl) == Render(<<Label(u, k)>> \o fl)
ArbBlocks ==
    {[StatusBlock(u, AllOff) EXCEPT ![k] = ArbLine(k, fl)] :
        k \in Outputs, fl \in FlagSeqs}
    \cup {SubSeq(StatusBlock(u, AllOff), 1, n) : n \in 0..(NumOutputs - 1)}

\* the reactions of the switcher to command c: its crosspoints afterwards
\* and the lines it sends
DevReact(c) ==
    IF dev = "arbitrary"
    THEN {[xp |-> xp, lines |-> b] : b \in ArbBlocks}
    ELSE IF dev = "faithful"
    THEN LET m == DevApply(xp, c)
             answer == [xp |-> m, lines |-> StatusBlock(u, m)]
             silence == [xp |-> m, lines |-> <<>>]
         IN  IF IsStatusReq(c) \/ ((IsConnect(c) \/ IsMute(c)) /\ InRange(c))
             THEN {answer}
             ELSE IF IsMuteAll(c) \/ IsConnect(c) \/ IsMute(c)
             THEN {answer, silence}
             ELSE {silence}
    ELSE {[xp |-> xp, lines |-> <<>>]}

-----------------------------------------------------------------------------
(* The methods of SS44.                                                    *)

\* _writeSerial: the command goes out and the switcher reacts to it
writeSerial(c) ==
    /\ tx' = Append(tx, c)
    /\ \E r \in DevReact(c) :
          /\ xp' = r.xp
          /\ rx' = rx \o r.lines

muteAll == writeSerial(MuteAllCmd(u))
mute(in, out) == writeSerial(MuteCmd(u, in, out))
connect(in, out) == writeSerial(ConnectCmd(u, in, out))

ConnectError == <<"Error, didn't connect input {i} to output {o}">>
MuteError == <<"Error, didn't mute input {i} on output {o}">>

NoStatus == <<>>

\* a public method is called: the per-call record starts afresh
Begin(name, a, b, start) ==
    /\ pc = "idle"
    /\ op' = name /\ ii' = a /\ o' = b /\ pc' = start
    /\ i' = 0 /\ ret' = "done" /\ line' = <<>>
    /\ results' = NoStatus /\ newstatus' = NoStatus /\ state' = NoStatus
    /\ tx' = <<>> /\ nreads' = 0 /\ timeouts' = 0
    /\ stdout' = <<>> /\ err' = "none"
    /\ calls' = calls + 1 /\ xp0' = xp /\ rx0' = rx
    /\ UNCHANGED <<u, dev, xp, rx, sent>>

\* the call ends with exception e
Raise(e) == pc' = "done" /\ err' = e

CallMuteAll == Begin("muteAll", 0, 0, "ma_write")
CallMute(a, b) == Begin("mute", a, b, "m_write")
CallConnect(a, b) == Begin("connect", a, b, "c_write")
CallReadState == Begin("readState", 0, 0, "rs_read")
CallPrintState == Begin("printState", 0, 0, "ps_write")
CallSwitchOutput(a, b) == Begin("switchOutput", a, b, "so_connect")

MuteAllWrite ==
    /\ pc = "ma_write"
    /\ muteAll
    /\ pc' = "done"
    /\ UNCHANGED <<u, dev, op, ii, o, i, ret, line, results, newstatus, state,
                   nreads, timeouts, stdout, err, calls, xp0, rx0, sent>>

MuteWrite ==
    /\ pc = "m_write"
    /\ mute(ii, o)
    /\ pc' = "done"
    /\ UNCHANGED <<u, dev, op, ii, o, i, ret, line, results, newstatus, state,
                   nreads, timeouts, stdout, err, calls, xp0, rx0, sent>>

ConnectWrite ==
    /\ pc = "c_write"
    /\ connect(ii, o)
    /\ pc' = "done"
    /\ UNCHANGED <<u, dev, op, ii, o, i, ret, line, results, newstatus, state,
                   nreads, timeouts, stdout, err, calls, xp0, rx0, sent>>

LastLineThree(n) == n = NumOutputs - 1

\* line number n is line4, the last one readState reads
LastLine(n) == n = NumOutputs

\* readState, lines 50-53: one read_until, which returns at a line end or
\* at the timeout
RsRead ==
    /\ pc = "rs_read"
    /\ line' = Append(line, ReadLine)
    /\ rx' = IF rx = <<>> THEN rx ELSE Tail(rx)
    /\ nreads' = nreads + 1
    /\ timeouts' = IF rx = <<>> THEN timeouts + 1 ELSE timeouts
    /\ pc' = IF LastLine(Len(line) + 1) THEN "rs_parse" ELSE "rs_read"
    /\ UNCHANGED <<u, dev, xp, op, ii, o, i, ret, results, newstatus, state,
                   tx, stdout, err, calls, xp0, rx0, sent>>

\* readState, lines 65-79: split, build the dict, return it to the caller,
\* who binds it to results, newstatus or state
RsReturn ==
    /\ pc = "rs_parse"
    /\ results' = IF ret \in {"so_verify", "done"} THEN Parse(line) ELSE results
    /\ newstatus' = IF ret = "so_check" THEN Parse(line) ELSE newstatus
    /\ state' = IF ret = "ps_print" THEN Parse(line) ELSE state
    /\ line' = <<>>
    /\ pc' = ret
    /\ UNCHANGED <<u, dev, xp, rx, op, ii, o, i, ret, tx, nreads, timeouts, stdout, err,
                   calls, xp0, rx0, sent>>

\* printState, lines 85-87: request the status, then readState
PsWrite ==
    /\ pc = "ps_write"
    /\ writeSerial(StatusCmd(u))
    /\ pc' = "rs_read" /\ ret' = "ps_print" /\ line' = <<>> /\ timeouts' = 0
    /\ UNCHANGED <<u, dev, op, ii, o, i, results, newstatus, state, nreads,
                   stdout, err, calls, xp0, rx0, sent>>

\* the cells printState visits, in the order of its two loops
Cells == [n \in 1..(NumOutputs * NumInputs) |->
             <<((n - 1) \div NumInputs) + 1, ((n - 1) % NumInputs) + 1>>]

\* state[k][j] exists
CellOk(st, c) == HasItem(st[c[1]], c[2])

\* the number of cells printed before state[i][j] raises IndexError
Printable(st) ==
    IF \A n \in DOMAIN Cells : CellOk(st, Cells[n]) THEN Len(Cells)
    ELSE (CHOOSE n \in DOMAIN Cells :
              /\ ~CellOk(st, Cells[n])
              /\ \A m \in 1..(n - 1) : CellOk(st, Cells[m])) - 1

\* printState, lines 88-94: a '1' or '0' per cell, then the newline
PsPrint ==
    /\ pc = "ps_print"
    /\ LET n == Printable(state)
           text == [m \in 1..n |->
                       IF Item(state[Cells[m][1]], Cells[m][2]) = "True"
                       THEN "1" ELSE "0"]
       IN  IF n = Len(Cells)
           THEN /\ stdout' = Append(stdout, text \o <<"\n">>)
                /\ pc' = "done" /\ err' = err
           ELSE /\ stdout' = Append(stdout, text)
                /\ Raise("IndexError")
    /\ UNCHANGED <<u, dev, xp, rx, op, ii, o, i, ret, line, results, newstatus,
                   state, tx, nreads, timeouts, calls, xp0, rx0, sent>>

\* switchOutput, lines 101-105: connect, then readState into results
SoConnect ==
    /\ pc = "so_connect"
    /\ connect(ii, o)
    /\ pc' = "rs_read" /\ ret' = "so_verify" /\ line' = <<>> /\ timeouts' = 0
    /\ UNCHANGED <<u, dev, op, ii, o, i, results, newstatus, state, nreads,
                   stdout, err, calls, xp0, rx0, sent>>

\* a dict of readState has key k
HasKey(k) == k \in Outputs

\* switchOutput, lines 108-109: results[o][ii] may raise KeyError or
\* IndexError; a failed check prints and goes on
SoVerify ==
    /\ pc = "so_verify"
    /\ IF ~HasKey(o)
       THEN Raise("KeyError") /\ UNCHANGED <<stdout, i>>
       ELSE IF ~HasItem(results[o], ii)
       THEN Raise("IndexError") /\ UNCHANGED <<stdout, i>>
       ELSE IF Item(results[o], ii) # "True"
       THEN /\ stdout' = Append(stdout, ConnectError)
            /\ pc' = "so_loop" /\ i' = 0 /\ err' = err
       ELSE /\ stdout' = stdout
            /\ pc' = "so_loop" /\ i' = 0 /\ err' = err
    /\ UNCHANGED <<u, dev, xp, rx, op, ii, o, ret, line, results, newstatus,
                   state, tx, nreads, timeouts, calls, xp0, rx0, sent>>

IsStaleAny(row, k, in) == Item(row, k) = "True"

\* line 116: item k of the row is another input than in, and on
IsStale(row, k, in) == k # in /\ Item(row, k) = "True"

\* switchOutput, line 115: range(len(results[o])) is exhausted, return
SoLoopDone ==
    /\ pc = "so_loop"
    /\ i >= Len(results[o])
    /\ pc' = "done"
    /\ UNCHANGED <<u, dev, xp, rx, op, ii, o, i, ret, line, results, newstatus,
                   state, tx, nreads, timeouts, stdout, err, calls, xp0, rx0, sent>>

\* switchOutput, line 116: nothing to mute at i
SoSkip ==
    /\ pc = "so_loop"
    /\ i < Len(results[o])
    /\ ~IsStale(results[o], i, ii)
    /\ i' = i + 1
    /\ UNCHANGED <<u, dev, xp, rx, pc, op, ii, o, ret, line, results, newstatus,
                   state, tx, nreads, timeouts, stdout, err, calls, xp0, rx0, sent>>

\* switchOutput, lines 116-120: mute input i, then readState into
\* newstatus, whose old value is not read again
SoMute ==
    /\ pc = "so_loop"
    /\ i < Len(results[o])
    /\ IsStale(results[o], i, ii)
    /\ mute(i, o)
    /\ pc' = "rs_read" /\ ret' = "so_check" /\ line' = <<>> /\ timeouts' = 0
    /\ newstatus' = NoStatus
    /\ UNCHANGED <<u, dev, op, ii, o, i, results, state, nreads, stdout, err,
                   calls, xp0, rx0, sent>>

BreakOnFailedMute(failed, k) == IF failed THEN NumInputs + 1 ELSE k + 1

\* lines 115-122: the for loop takes the next index after the check of a
\* mute, whether it failed or not
AfterMuteCheck(failed, k) == k + 1

StillOnInverted(st, out, k) == Item(st[out], k) # "True"

\* line 121: newstatus[o][i] != False
StillOn(st, out, k) == Item(st[out], k) # "False"

\* switchOutput, lines 121-122: newstatus[o][i] may raise IndexError; a
\* failed check prints and the loop goes on
SoCheck ==
    /\ pc = "so_check"
    /\ IF ~HasItem(newstatus[o], i)
       THEN Raise("IndexError") /\ UNCHANGED <<stdout, i>>
       ELSE /\ stdout' = IF StillOn(newstatus, o, i)
                         THEN Append(stdout, MuteError) ELSE stdout
            /\ i' = AfterMuteCheck(StillOn(newstatus, o, i), i)
            /\ pc' = "so_loop" /\ err' = err
    /\ UNCHANGED <<u, dev, xp, rx, op, ii, o, ret, line, results, newstatus,
                   state, tx, nreads, timeouts, calls, xp0, rx0, sent>>

\* the method has returned or raised: its locals are gone, the object and
\* the unread lines stay
Return ==
    /\ pc = "done"
    /\ pc' = "idle" /\ op' = "none"
    /\ ii' = 0 /\ o' = 0 /\ i' = 0 /\ ret' = "done" /\ line' = <<>>
    /\ results' = NoStatus /\ newstatus' = NoStatus /\ state' = NoStatus
    /\ tx' = <<>> /\ nreads' = 0 /\ timeouts' = 0
    /\ stdout' = <<>> /\ err' = "none"
    /\ xp0' = xp /\ rx0' = rx
    /\ UNCHANGED <<u, dev, xp, rx, calls, sent>>

Steps ==
    \/ SoConnect \/ RsRead \/ RsReturn \/ SoVerify
    \/ SoLoopDone \/ SoSkip \/ SoMute \/ SoCheck
    \/ PsWrite \/ PsPrint

-----------------------------------------------------------------------------
(* Specifications.                                                         *)

Start(d) ==
    /\ dev = d /\ pc = "idle" /\ op = "none"
    /\ ii = 0 /\ o = 0 /\ i = 0 /\ ret = "done" /\ line = <<>>
    /\ results = NoStatus /\ newstatus = NoStatus /\ state = NoStatus
    /\ tx = <<>> /\ nreads = 0 /\ timeouts = 0
    /\ stdout = <<>> /\ err = "none"
    /\ calls = 0 /\ rx0 = rx /\ xp0 = xp

\* One call of switchOutput or printState on a default-unit object, the
\* switcher answering every command with any block of ArbBlocks.
Init ==
    /\ u = DefaultUnit /\ xp = AllOff /\ rx = <<>> /\ sent = <<>>
    /\ Start("arbitrary")

Next ==
    \/ \E a \in Inputs, b \in Outputs : CallSwitchOutput(a, b)
    \/ CallPrintState
    \/ Steps

Spec == Init /\ [][Next]_vars

\* Up to MaxCalls calls, one after the other, of switchOutput, printState
\* and muteAll on a default-unit object whose switcher applies every command
\* and answers it with its status; at most MaxBusy outputs carry inputs at
\* the start.
RowsOn == [Inputs -> BOOLEAN] \ {[j \in Inputs |-> FALSE]}
BusySets == {B \in SUBSET Outputs : Cardinality(B) <= MaxBusy}
InitMatrices ==
    UNION {{[k \in Outputs |-> IF k \in B THEN f[k] ELSE AllOff[k]] :
               f \in [B -> RowsOn]} : B \in BusySets}

InitDev ==
    /\ u = DefaultUnit /\ xp \in InitMatrices /\ rx = <<>> /\ sent = <<>>
    /\ Start("faithful")

NextDev ==
    \/ /\ calls < MaxCalls
       /\ \/ \E a \in Inputs, b \in Outputs : CallSwitchOutput(a, b)
          \/ CallPrintState
          \/ CallMuteAll
    \/ MuteAllWrite
    \/ Steps
    \/ Return

SpecDev == InitDev /\ [][NextDev]_vars

\* One call of any method, with any unit up to MaxUnit and any indices up to
\* MaxIdx, on a switcher that has every crosspoint on.
InitEnc ==
    /\ u \in 0..MaxUnit /\ xp = AllOn /\ rx = <<>> /\ sent = <<>>
    /\ Start("faithful")

NextEnc ==
    \/ \E a \in 0..MaxIdx, b \in 0..MaxIdx :
          CallMute(a, b) \/ CallConnect(a, b) \/ CallSwitchOutput(a, b)
    \/ CallMuteAll
    \/ CallPrintState
    \/ MuteAllWrite \/ MuteWrite \/ ConnectWrite
    \/ Steps

SpecEnc == InitEnc /\ [][NextEnc]_vars

\* One call of readState on lines that are already waiting: a status block
\* in which one line has any label and zero to five flag fields of any
\* value, or of which only the first lines arrived.
FieldVals == {<<"0">>, <<"1">>, <<"1", "1">>}
Labels(k) == {Label(DefaultUnit, k), <<"S", "0", "L", "9">>}
FieldRows(k) ==
    {<<lb>> \o fl : lb \in Labels(k),
                    fl \in UNION {[1..n -> FieldVals] : n \in 0..(NumInputs + 1)}}
OffFields(unit) ==
    [k \in Outputs |-> <<Label(unit, k)>> \o [j \in Inputs |-> <<"0">>]]
ParseBlocks(unit) ==
    UNION {{[OffFields(unit) EXCEPT ![k] = f] : f \in FieldRows(k)} :
              k \in Outputs}
    \cup {SubSeq(OffFields(unit), 1, n) : n \in 0..(NumOutputs - 1)}

InitParse ==
    /\ u = DefaultUnit /\ xp = AllOff
    /\ sent \in ParseBlocks(u)
    /\ rx = [k \in 1..Len(sent) |-> Render(sent[k])]
    /\ Start("preloaded")

NextParse == CallReadState \/ RsRead \/ RsReturn

SpecParse == InitParse /\ [][NextParse]_vars

-----------------------------------------------------------------------------
(* Vocabulary of the properties.                                           *)

\* status st shows input in on output out
Shows(st, out, in) ==
    HasKey(out) /\ HasItem(st[out], in) /\ Item(st[out], in) = "True"

\* status st shows input in off output out
ShowsOff(st, out, in) ==
    HasKey(out) /\ HasItem(st[out], in) /\ Item(st[out], in) = "False"

\* switchOutput has read M1 and is past the check of line 108
PastVerify ==
    op = "switchOutput" /\ results # NoStatus /\ pc # "so_verify"

MuteWritten == \E n \in DOMAIN tx : IsMute(tx[n])

Printed(msg) == \E n \in DOMAIN stdout : stdout[n] = msg

\* the inputs other than in that st shows on output out, ascending
StaleInputs(st, out, in) ==
    SelectSeq([k \in Inputs |-> k], LAMBDA k : k # in /\ Shows(st, out, k))

\* the commands of tx after the first
Later(cmds) == SubSeq(cmds, 2, Len(cmds))

-----------------------------------------------------------------------------
(* Properties under Spec.                                                  *)

\* C1: when the status read after Connect does not show input ii on output
\* o, switchOutput writes no Mute command and the failure is reported.
C1_FailedVerifyWritesNoMute ==
    (PastVerify /\ ~Shows(results, o, ii)) =>
        /\ ~MuteWritten
        /\ Printed(ConnectError) \/ err # "none"

\* C3: with exactly one stale input s in M1, both s and ii shown on output o,
\* and M2 showing s off and ii on, the call writes Connect(ii, o) then
\* Mute(s, o) and nothing else, reads two blocks of four lines, and prints
\* no error.
C3_HappyPath ==
    \A s \in Inputs :
        ( /\ op = "switchOutput" /\ pc = "done"
          /\ results # NoStatus /\ newstatus # NoStatus
          /\ s # ii
          /\ Shows(results, o, ii) /\ Shows(results, o, s)
          /\ \A k \in Inputs \ {ii, s} : ~Shows(results, o, k)
          /\ ShowsOff(newstatus, o, s) /\ Shows(newstatus, o, ii) )
        => /\ tx = << <<"*", DigitChar(u), "0", DigitChar(ii), DigitChar(o)>>,
                      <<"*", DigitChar(u), "0", DigitChar(s), "M", DigitChar(o)>> >>
           /\ nreads = 2 * NumOutputs
           /\ stdout = <<>>
           /\ err = "none"

C3_Witness ==
    /\ op = "switchOutput" /\ pc = "done" /\ err = "none"
    /\ ii = 2 /\ o = 1
    /\ results # NoStatus /\ newstatus # NoStatus
    /\ Shows(results, 1, 2) /\ Shows(results, 1, 1)
    /\ ~Shows(results, 1, 3) /\ ~Shows(results, 1, 4)
    /\ ShowsOff(newstatus, 1, 1) /\ Shows(newstatus, 1, 2)
    /\ Len(tx) = 2

\* C5: when fewer than four status lines arrive before the timeout,
\* printState fails with a protocol-mismatch error of its own and no matrix
\* with a short row comes out of readState.
C5_ShortBlockIsProtocolMismatch ==
    (op = "printState" /\ pc = "done" /\ timeouts > 0) =>
        /\ err = "ProtocolMismatch"
        /\ state = NoStatus
             \/ \A k \in Outputs : Len(state[k]) = NumInputs + 1

\* C9: the check after Connect prints the connection error exactly when M1
\* does not show ii on o, the check after Mute(i, o) prints the mute error
\* exactly when the block just read still shows i on o, and after either
\* print the call goes on to the loop instead of raising.
C9_FailuresReportedNotRaised ==
    [][ /\ (pc = "so_verify" /\ HasKey(o) /\ HasItem(results[o], ii)) =>
              /\ (stdout' = Append(stdout, ConnectError)) <=> ~Shows(results, o, ii)
              /\ stdout' = stdout <=> Shows(results, o, ii)
              /\ err' = "none" /\ pc' = "so_loop"
        /\ (pc = "so_check" /\ HasItem(newstatus[o], i)) =>
              /\ (stdout' = Append(stdout, MuteError)) <=> Shows(newstatus, o, i)
              /\ stdout' = stdout <=> ~Shows(newstatus, o, i)
              /\ err' = "none" /\ pc' = "so_loop"
        /\ (pc \notin {"so_verify", "so_check"} /\ op = "switchOutput") =>
              stdout' = stdout
      ]_vars

C9_Witness ==
    /\ op = "switchOutput" /\ pc = "done" /\ err = "none"
    /\ stdout = <<ConnectError, MuteError>>
    /\ ~Shows(results, o, ii)
    /\ \E k \in Inputs : Shows(newstatus, o, k) /\ Shows(results, o, k)

\* C10: once the connection is verified, the Mute commands written so far
\* are the Mute(k, o) of the stale inputs k of M1 that the loop has reached,
\* in ascending order, and on return they are those of all stale inputs of
\* M1, whatever the blocks read after the mutes showed.
C10_MutesFixedByM1 ==
    (PastVerify /\ Shows(results, o, ii)) =>
        LET stale == StaleInputs(results, o, ii)
            upto == IF pc = "so_loop" THEN i - 1
                    ELSE IF pc = "done" /\ err = "none" THEN NumInputs
                    ELSE i
            reached == SelectSeq(stale, LAMBDA k : k <= upto)
        IN  /\ tx[1] = ConnectCmd(u, ii, o)
            /\ Later(tx) = [n \in 1..Len(reached) |-> MuteCmd(u, reached[n], o)]

C10_Witness ==
    /\ PastVerify /\ pc = "done" /\ err = "none"
    /\ Shows(results, o, ii)
    /\ Len(StaleInputs(results, o, ii)) = NumInputs - 1
    /\ Len(tx) = NumInputs
    /\ stdout = <<MuteError>>

\* C11: when the block read after Mute(i, o) still shows i on o, the check
\* neither raises nor ends the call but moves the loop on to the next
\* index; and a call that returns after reporting a mute failure has written
\* the Mute of every stale input of M1, each followed by four line reads.
C11_FailedMuteDoesNotAbort ==
    /\ [][ (pc = "so_check" /\ Shows(newstatus, o, i)) =>
              /\ pc' = "so_loop" /\ err' = "none"
              /\ i' = i + 1 /\ tx' = tx /\ nreads' = nreads
         ]_vars
    /\ []( ( /\ op = "switchOutput" /\ pc = "done" /\ err = "none"
              /\ Printed(MuteError) )
            => LET stale == StaleInputs(results, o, ii)
               IN  /\ Later(tx) = [n \in 1..Len(stale) |-> MuteCmd(u, stale[n], o)]
                   /\ nreads = NumOutputs * Len(tx) )

C11_Witness ==
    /\ op = "switchOutput" /\ pc = "done" /\ err = "none"
    /\ stdout = <<MuteError, MuteError, MuteError>>
    /\ Len(tx) = NumInputs /\ nreads = NumOutputs * NumInputs

\* a status read by readState in which the row of some output has fewer
\* than four flags: its line timed out or had fewer than five fields
Malformed(st) ==
    st # NoStatus /\ \E k \in Outputs : Len(st[k]) < NumInputs + 1

\* C12: once switchOutput has read a block in which any line is missing or
\* has fewer than five fields, it writes no further command.
C12_MalformedBlockAborts ==
    [][ ( /\ op = "switchOutput"
          /\ Malformed(results) \/ Malformed(newstatus) )
        => tx' = tx ]_vars

\* the longest row readState can return: None and four flags
MaxRow == NumInputs + 1

\* steps of one loop index that mutes: the write, four reads, the parse and
\* the check
MuteSteps == NumOutputs + 3

\* an upper bound on the steps switchOutput still has to take
Rank ==
    LET loop(k) == MuteSteps * (MaxRow - k) + 1
    IN  CASE pc = "so_connect" -> loop(0) + NumOutputs + 4
          [] pc = "rs_read" /\ ret = "so_verify" -> loop(0) + NumOutputs + 3 - Len(line)
          [] pc = "rs_parse" /\ ret = "so_verify" -> loop(0) + 2
          [] pc = "so_verify" -> loop(0) + 1
          [] pc = "so_loop" -> loop(i)
          [] pc = "rs_read" /\ ret = "so_check" -> loop(i) - 1 - Len(line)
          [] pc = "rs_parse" /\ ret = "so_check" -> loop(i) - 1 - NumOutputs
          [] pc = "so_check" -> loop(i) - 2 - NumOutputs
          [] OTHER -> 0

\* C16: switchOutput(ii, o) with ii, o in 1..4 writes Connect(ii, o) first
\* and after it only Mute(k, o) for inputs k in 1..4 other than ii, at most
\* four commands in all, and makes at most sixteen line reads, whatever the
\* blocks read; and it terminates: every step it takes lowers Rank, which
\* is never negative and is zero only when the call has returned or raised.
C16_BoundedAndTerminates ==
    /\ []( op = "switchOutput" =>
             /\ Len(tx) <= NumInputs
             /\ nreads <= NumOutputs * NumInputs
             /\ nreads <= NumOutputs * Len(tx)
             /\ \A n \in DOMAIN tx :
                   IF n = 1 THEN tx[n] = ConnectCmd(u, ii, o)
                   ELSE \E k \in Inputs \ {ii} : tx[n] = MuteCmd(u, k, o)
             /\ Rank >= 0
             /\ Rank = 0 <=> pc = "done" )
    /\ [][ op = "switchOutput" => Rank' < Rank ]_vars

\* three stale inputs: four commands and sixteen reads
C16_Witness ==
    /\ op = "switchOutput" /\ pc = "done" /\ err = "none"
    /\ ii = 2 /\ o = 3
    /\ tx = <<ConnectCmd(u, 2, 3), MuteCmd(u, 1, 3), MuteCmd(u, 3, 3),
              MuteCmd(u, 4, 3)>>
    /\ nreads = NumOutputs * NumInputs

-----------------------------------------------------------------------------
(* Properties under SpecDev.                                               *)

\* C2: in a switchOutput that starts with no unread line, the lines read
\* and the lines still unread are always the four lines of each command
\* written; when the next command is about to be written, when a block is
\* parsed and when the call ends, every command written has had its four
\* lines read and none is unread; and no read times out.
C2_FourReadsAfterEachWrite ==
    (op = "switchOutput" /\ clean /\ pc # "idle") =>
        /\ nreads + Len(rx) = NumOutputs * Len(tx)
        /\ (pc \in {"so_connect", "so_loop", "so_verify", "so_check",
                    "rs_parse", "done"}) =>
              (nreads = NumOutputs * Len(tx) /\ rx = <<>>)
        /\ (pc = "rs_read") =>
              /\ Len(tx) >= 1
              /\ nreads = NumOutputs * (Len(tx) - 1) + Len(line)
              /\ Len(line) < NumOutputs
        /\ timeouts = 0

C2_Witness ==
    /\ op = "switchOutput" /\ clean /\ pc = "done"
    /\ Len(tx) = 3 /\ nreads = 12 /\ rx = <<>>
    /\ calls = 2

\* C6: printState writes the one command "*<unit>SL" and nothing else, has
\* read four lines when it ends, and the switcher's crosspoints stay what
\* they were when the call started.
C6_PrintStateOnlyRequestsStatus ==
    (op = "printState" /\ pc # "idle") =>
        /\ xp = xp0
        /\ pc = "ps_write" => (tx = <<>> /\ nreads = 0)
        /\ pc # "ps_write" => tx = << <<"*", DigitChar(u), "S", "L">> >>
        /\ pc = "done" => nreads = NumOutputs

C6_Witness ==
    /\ op = "printState" /\ pc = "done" /\ err = "none"
    /\ xp0 # AllOff /\ xp = xp0
    /\ Len(tx) = 1 /\ nreads = 4
    /\ Len(stdout) = 1 /\ \E n \in DOMAIN stdout[1] : stdout[1][n] = "1"

\* C14: a switchOutput(ii, o) that starts with no unread line on a switcher
\* that applies and answers every command returns without error, leaving
\* input ii and no other input on output o and every other output's row as
\* it was when the call started.
C14_SingleSourcePerOutput ==
    (op = "switchOutput" /\ clean /\ pc = "done") =>
        /\ err = "none"
        /\ \A j \in Inputs : xp[o][j] <=> j = ii
        /\ \A k \in Outputs \ {o} : xp[k] = xp0[k]

C14_Witness ==
    /\ op = "switchOutput" /\ clean /\ pc = "done" /\ err = "none"
    /\ ii = 3 /\ o = 2
    /\ xp0[2][1] /\ xp0[2][4] /\ ~xp0[2][3]
    /\ \E k \in Outputs \ {2} : xp0[k] # AllOff[k]
    /\ xp[2] = [j \in Inputs |-> j = 3]
    /\ Len(tx) = 3

\* the matrix of a switcher that had matrix m and applied the commands cmds
RECURSIVE MatrixAfter(_, _)
MatrixAfter(m, cmds) ==
    IF cmds = <<>> THEN m
    ELSE MatrixAfter(DevApply(m, Head(cmds)), Tail(cmds))

\* what readState returns for the lines ls
Read(ls) == Parse([k \in Outputs |-> Strip(ls[k])])

\* C15: muteAll writes "*<unit>MA" and reads nothing, so the status block a
\* switcher sends for it is left unread.  A switchOutput that starts with one
\* status block unread takes that block as M1; each block it reads after a
\* Mute is the one the switcher sent for the command before that Mute; and
\* whenever it checks a status or returns, the block of the last command it
\* wrote is the one block unread.
C15_UnreadBlockShiftsEveryRead ==
    /\ (op = "muteAll" /\ pc = "done") =>
          /\ tx = << <<"*", DigitChar(u), "M", "A">> >>
          /\ nreads = 0
          /\ rx = rx0 \/ rx = rx0 \o StatusBlock(u, AllOff)
    /\ (op = "switchOutput" /\ Len(rx0) = NumOutputs) =>
          /\ results # NoStatus => results = Read(rx0)
          /\ newstatus # NoStatus =>
                newstatus = Read(StatusBlock(u,
                               MatrixAfter(xp0, SubSeq(tx, 1, Len(tx) - 1))))
          /\ pc \in {"so_verify", "so_loop", "so_check", "done"} =>
                /\ rx = StatusBlock(u, xp)
                /\ xp = MatrixAfter(xp0, tx)

\* the third call, after a muteAll whose block was never read and a
\* switchOutput that left its own block unread: M1 is the block of the
\* call before, so the switcher ends with ii alone on o while both checks
\* report a failure
C15_Witness ==
    /\ op = "switchOutput" /\ pc = "done" /\ err = "none" /\ calls = 3
    /\ Len(rx0) = NumOutputs
    /\ results = Read(rx0)
    /\ results # Read(StatusBlock(u, MatrixAfter(xp0, <<tx[1]>>)))
    /\ newstatus = Read(StatusBlock(u, MatrixAfter(xp0, <<tx[1]>>)))
    /\ stdout = <<ConnectError, MuteError>>
    /\ \A j \in Inputs : xp[o][j] <=> j = ii
    /\ rx = StatusBlock(u, xp)

-----------------------------------------------------------------------------
(* Properties under SpecEnc.                                               *)

Digit10 == <<"0", "1", "2", "3", "4", "5", "6", "7", "8", "9">>

\* C4: connect, mute and switchOutput called with an input or an output
\* outside 1..4 write nothing to the port.
C4_OutOfRangeWritesNothing ==
    ( /\ op \in {"connect", "mute", "switchOutput"}
      /\ (ii \notin Inputs \/ o \notin Outputs) )
    => tx = <<>>

\* C8: for units 0..9 and indices 1..4, a finished muteAll has written
\* "*uMA", mute "*u0iMo", connect "*u0io", printState "*uSL": that one
\* command each, with no line terminator.
C8_WireFormat ==
    (pc = "done" /\ u <= 9 /\ (op \in {"mute", "connect"} => (ii \in Inputs /\ o \in Outputs)))
    => LET U == Digit10[u + 1]
       IN  /\ op = "muteAll" => tx = << <<"*", U, "M", "A">> >>
           /\ op = "mute" =>
                 tx = << <<"*", U, "0", Digit10[ii + 1], "M", Digit10[o + 1]>> >>
           /\ op = "connect" =>
                 tx = << <<"*", U, "0", Digit10[ii + 1], Digit10[o + 1]>> >>
           /\ op = "printState" => tx = << <<"*", U, "S", "L">> >>

C8_Witness ==
    /\ pc = "done" /\ op = "mute" /\ u = 9 /\ ii = 3 /\ o = 4
    /\ tx = << <<"*", "9", "0", "3", "M", "4">> >>

\* command c starts with "*" and the decimal digits of unit
HasUnitPrefix(c, unit) ==
    LET p == <<"*">> \o FmtInt(unit)
    IN  Len(c) >= Len(p) /\ SubSeq(c, 1, Len(p)) = p

\* C17: no step of any method changes the unit number the object was
\* constructed with, and every command written starts with "*" and that
\* unit number.
C17_UnitNeverChanges ==
    /\ [][u' = u]_vars
    /\ [](\A n \in DOMAIN tx : HasUnitPrefix(tx[n], u))

C17_Witness ==
    /\ op = "switchOutput" /\ pc = "done" /\ u = 7
    /\ ii \in Inputs /\ o \in Outputs
    /\ Len(tx) = NumInputs
    /\ \A n \in DOMAIN tx : SubSeq(tx[n], 1, 2) = <<"*", "7">>

-----------------------------------------------------------------------------
(* Properties under SpecParse.                                             *)

\* C7: when each of the four lines has at least five fields, readState
\* returns for every output k a row of four flags, flag j being True exactly
\* when field j+1 of the k-th line that arrived is "1", whatever the label
\* in the first field and however many flags of the line are set.
C7_ParseByPosition ==
    ( /\ op = "readState" /\ pc = "done"
      /\ Len(sent) = NumOutputs
      /\ \A k \in Outputs : Len(sent[k]) >= NumInputs + 1 )
    => \A k \in Outputs :
          /\ Len(results[k]) = NumInputs + 1
          /\ Item(results[k], 0) = "None"
          /\ \A j \in Inputs :
                /\ Item(results[k], j) \in {"True", "False"}
                /\ Item(results[k], j) = "True" <=> sent[k][j + 1] = <<"1">>

C7_Witness ==
    /\ op = "readState" /\ pc = "done"
    /\ Len(sent) = NumOutputs
    /\ sent[2] = << <<"S", "0", "L", "9">>, <<"1">>, <<"1", "1">>, <<"0">>, <<"1">>, <<"1">> >>
    /\ results[2] = <<"None", "True", "False", "False", "True">>
    /\ results[1] = <<"None", "False", "False", "False", "False">>

\* C13: when a line has fewer than five fields or did not arrive, readState
\* still returns for its output a row with all four flags, the flags of the
\* missing fields being False.
C13_ShortLinePaddedWithFalse ==
    (op = "readState" /\ pc = "done") =>
        \A k \in Outputs :
            ( k > Len(sent) \/ Len(sent[k]) < NumInputs + 1 )
            => /\ Len(results[k]) = NumInputs + 1
               /\ \A j \in Inputs :
                     /\ HasItem(results[k], j)
                     /\ ( k > Len(sent) \/ j + 1 > Len(sent[k]) )
                          => Item(results[k], j) = "False"

====
